---- MODULE Spec2Model ----
(***************************************************************************)
(* Connection lifecycle of bond_book_backend: toggleFollow,                *)
(* acceptFollowRequest, rejectFollowRequest and checkConnection of         *)
(* controllers/UserController.js over the User, FollowRequest,             *)
(* MutualConnection and Notification collections.                          *)
(*                                                                         *)
(* Every handler is an async function: it runs to its next `await`, the    *)
(* awaited database operation executes, and the handler continues.  One    *)
(* action of the model is one database operation of one in-flight call     *)
(* followed by the synchronous code up to the next await.  Operations      *)
(* started together with Promise.all are separate actions that may execute *)
(* in either order and interleave with other calls.                        *)
(*                                                                         *)
(* Document.save() is mongoose's: an array changed with push() is written  *)
(* as $push and increments __v; an array that was reassigned is written as *)
(* $set guarded by the __v that was loaded (VersionError on mismatch) and  *)
(* increments __v; a changed scalar is written as $set by _id              *)
(* (DocumentNotFoundError when the document is gone); an unmodified        *)
(* document is not written.                                                *)
(***************************************************************************)
EXTENDS Integers, Sequences, FiniteSets, Bags, TLC

\* ---------------------------------------------------------------- bounds
\* Number of handler invocations (HTTP requests) in one behaviour with
\* overlapping invocations.
MaxOps == 4
\* Number of handler invocations in one behaviour with one invocation at a
\* time.
MaxOpsSeq == 6
\* Number of handler invocations in one behaviour with one invocation at a
\* time and a Notification collection that may refuse inserts.
MaxOpsFaulty == 4
\* Number of stored notifications in one behaviour of direct
\* createNotification calls.
MaxNotifs == 3
\* Number of message handler invocations in one behaviour.
MaxMsgOps == 4
\* Message-handler invocations per behaviour of SpecMsg2.
MaxMsgOps2 == 2
\* Socket events (handshakes included) and sendMessage invocations in one
\* behaviour with sockets.
MaxSockOps == 4

\* ------------------------------------------------------------ input sets
\* User ids.  ObjectIds are fixed-width hex strings, so their string order
\* is the numeric order of these naturals.
Users == {1, 2}
\* req.body.userId may be missing: 0 stands for undefined.
NoUser == 0
\* An id that no User document has.
UnknownUser == 9
\* Concurrently executing handler invocations.
Calls == {1, 2}

VARIABLES
  users,      \* User collection: id -> [following, followers, v]
  requests,   \* FollowRequest collection: set of documents
  nextId,     \* next fresh FollowRequest _id
  mcs,        \* MutualConnection collection: sequence of documents, _id = index
  notifs,     \* Notification collection: bag of [user, fromUser, type]
  calls,      \* per in-flight handler invocation: its local state
  ops,        \* number of invocations begun so far
  faulty,     \* whether Notification.create may fail (storage fault)
  messages,   \* Message collection: sequence of documents, _id = index
  events,     \* 'new-message' events emitted through Socket.IO so far
  mcalls,     \* per in-flight message handler invocation: its local state
  mops,       \* number of message handler invocations begun so far
  sockets,    \* Socket.IO connections opened so far, socket.id = index
  activeUsers,\* the Map of config/socket.js: userId -> socket.id
  sops        \* number of socket events handled so far

vars == <<users, requests, nextId, mcs, notifs, calls, ops, faulty,
          messages, events, mcalls, mops, sockets, activeUsers, sops>>
db == <<users, requests, nextId, mcs, notifs>>
\* The state of the connection lifecycle and the state of messaging.
lcvars == <<users, requests, nextId, mcs, notifs, calls, ops, faulty>>
msgvars == <<messages, events, mcalls, mops>>
sockvars == <<sockets, activeUsers, sops>>

\* ------------------------------------------------------------- documents
NoDoc == [following |-> <<>>, followers |-> <<>>, v |-> -1]
NoReq == [id |-> 0, requester |-> 0, recipient |-> 0, status |-> "none"]
NoRes == [status |-> 0, msg |-> ""]

\* userSchema: followers / following arrays, default versionKey __v.
NewUser == [following |-> <<>>, followers |-> <<>>, v |-> 0]

\* User.findById(id): the document, NoDoc for null.
FindUser(id) == IF id \in DOMAIN users THEN users[id] ELSE NoDoc

\* array.some(id => id.toString() === x)
Contains(arr, x) == \E i \in 1..Len(arr) : arr[i] = x

\* array.filter(id => id.toString() !== x)
Filter(arr, x) == SelectSeq(arr, LAMBDA y : y # x)

\* Number of occurrences of x in arr.
Count(arr, x) == Cardinality({i \in 1..Len(arr) : arr[i] = x})

\* [a.toString(), b.toString()].sort() joined with '_': the pair in
\* ascending order.
CanonicalId(a, b) == IF a <= b THEN <<a, b>> ELSE <<b, a>>

\* [requester._id, recipient._id].sort(localeCompare)
SortedPair(a, b) == IF a <= b THEN <<a, b>> ELSE <<b, a>>

\* FollowRequest.findOne({requester, recipient})
FindRequest(a, b) ==
  IF \E r \in requests : r.requester = a /\ r.recipient = b
    THEN CHOOSE r \in requests : r.requester = a /\ r.recipient = b
    ELSE NoReq

\* FollowRequest.findById(id)
FindRequestById(id) ==
  IF \E r \in requests : r.id = id
    THEN CHOOSE r \in requests : r.id = id
    ELSE NoReq

\* Faulty variant of RequestDuplicate: the unique index is missing.
RequestDuplicate_Off(a, b) == FALSE

\* followRequestSchema.index({requester: 1, recipient: 1}, {unique: true}):
\* the insert is refused (E11000) when the ordered pair is present.
RequestDuplicate(a, b) == \E r \in requests : r.requester = a /\ r.recipient = b

\* Faulty variant of MCDuplicate: no unique index on MutualConnection.
MCDuplicate_Off(u1, u2, cid) == FALSE

\* mutualConnectionSchema: connectionId unique, index {user1, user2} unique.
MCDuplicate(u1, u2, cid) ==
  \E i \in 1..Len(mcs) :
    \/ mcs[i].connectionId = cid
    \/ (mcs[i].user1 = u1 /\ mcs[i].user2 = u2)

\* MutualConnection.findOne({$or: [{user1, user2}, {user1: user2, user2:
\* user1}, {connectionId}]}): index of the first match, 0 when none.
MCMatches(u1, u2, cid) ==
  {i \in 1..Len(mcs) :
     \/ (mcs[i].user1 = u1 /\ mcs[i].user2 = u2)
     \/ (mcs[i].user1 = u2 /\ mcs[i].user2 = u1)
     \/ mcs[i].connectionId = cid}

FindMC(u1, u2, cid) ==
  IF MCMatches(u1, u2, cid) = {} THEN 0
  ELSE CHOOSE i \in MCMatches(u1, u2, cid) :
         \A j \in MCMatches(u1, u2, cid) : i <= j

\* Faulty variant of createNotification: the self-notification check is
\* missing.
createNotification_NoSelfCheck(coll, userId, fromUserId, type) ==
  {coll (+) SetToBag({[user |-> userId, fromUser |-> fromUserId,
                      type |-> type]})}
  \cup (IF faulty THEN {coll} ELSE {})

\* createNotification(userId, fromUserId, type, ...): nothing when the user
\* notifies themselves; otherwise Notification.create, whose failure is
\* caught and logged (returns null).  The set of possible resulting
\* collections; the insert can fail only when the storage is faulty.
createNotification(coll, userId, fromUserId, type) ==
  IF userId = fromUserId THEN {coll}
  ELSE {coll (+) SetToBag({[user |-> userId, fromUser |-> fromUserId,
                           type |-> type]})}
       \cup (IF faulty THEN {coll} ELSE {})

\* ------------------------------------------------------- handler state
Idle == [op |-> "none", pc |-> "idle", userId |-> 0, target |-> 0,
         requestId |-> 0, cur |-> NoDoc, oth |-> NoDoc, req |-> NoReq,
         mc |-> 0, mcWas |-> "", pending |-> {}, failed |-> FALSE,
         sent |-> {}, res |-> NoRes]

InFlight(c) == calls[c].pc \notin {"idle", "done"}

\* A new invocation takes the lowest slot that holds no running handler.
FreeSlot(c) == ~InFlight(c) /\ \A d \in Calls : d < c => InFlight(d)

\* No handler is running.
Quiet == \A c \in Calls : ~InFlight(c)

\* res.status(code).json({message}) ends the handler.
Respond(rec, code, msg) ==
  [rec EXCEPT !.pc = "done", !.res = [status |-> code, msg |-> msg],
              !.cur = NoDoc, !.oth = NoDoc, !.pending = {}]

\* Message handler invocations that execute concurrently.
MCalls == {1, 2}

\* Locals of a message handler invocation.
MIdle == [op |-> "none", pc |-> "idle", userId |-> 0, mcId |-> 0,
          content |-> "", page |-> 0, limit |-> 0, receiver |-> 0,
          msg |-> 0, result |-> <<>>, count |-> 0, res |-> NoRes]

\* No message was sent and no message handler has run.
NoMessaging ==
  /\ messages = <<>>
  /\ events = {}
  /\ mcalls = [c \in MCalls |-> MIdle]
  /\ mops = 0

\* No socket was opened yet; new Map().
NoSockets ==
  /\ sockets = <<>>
  /\ activeUsers = [u \in {} |-> 0]
  /\ sops = 0

Init ==
  /\ users = [u \in Users |-> NewUser]
  /\ requests = {}
  /\ nextId = 1
  /\ mcs = <<>>
  /\ notifs = EmptyBag
  /\ calls = [c \in Calls |-> Idle]
  /\ ops = 0
  /\ faulty = FALSE
  /\ NoMessaging
  /\ NoSockets

\* ------------------------------------------------------------ toggleFollow
\* Lines 1154-1182: validation, then both users are fetched in parallel.
ToggleBegin(c, u, t) ==
  /\ FreeSlot(c)
  /\ ops' = ops + 1
  /\ LET rec == [Idle EXCEPT !.op = "toggle", !.userId = u, !.target = t] IN
     calls' = [calls EXCEPT ![c] =
       IF t = NoUser THEN Respond(rec, 400, "User ID is required")
       ELSE IF u = t
         THEN Respond(rec, 400, "Cannot send follow request to yourself")
       ELSE [rec EXCEPT !.pc = "t_users", !.pending = {"cur", "oth"}]]
  /\ UNCHANGED <<db, faulty>>

\* Faulty variant of ToggleAfterUsers: the unfollow leaves the target's
\* followers array alone.
ToggleAfterUsers_KeepFollower(rec) ==
  IF rec.cur = NoDoc \/ rec.oth = NoDoc
    THEN Respond(rec, 404, "User not found")
  ELSE IF Contains(rec.cur.following, rec.target)
    THEN [rec EXCEPT !.pc = "t_save",
            !.cur = [@ EXCEPT !.following = Filter(@, rec.target)],
            !.pending = {"cur"}]
    ELSE [rec EXCEPT !.pc = "t_find"]

\* Lines 1184-1208 once both users are loaded: 404 when one is missing;
\* unfollow when the target is in the loaded following array, else look for
\* an existing request.
ToggleAfterUsers(rec) ==
  IF rec.cur = NoDoc \/ rec.oth = NoDoc
    THEN Respond(rec, 404, "User not found")
  ELSE IF Contains(rec.cur.following, rec.target)
    THEN LET cur2 == [rec.cur EXCEPT !.following = Filter(@, rec.target)]
             oth2 == [rec.oth EXCEPT !.followers = Filter(@, rec.userId)]
         IN [rec EXCEPT !.pc = "t_save", !.cur = cur2, !.oth = oth2,
               !.pending = {"cur"} \cup
                   (IF oth2.followers # rec.oth.followers THEN {"oth"} ELSE {})]
    ELSE [rec EXCEPT !.pc = "t_find"]

\* Lines 1179-1182: User.findById(userId) / User.findById(followUserId).
ToggleReadUser(c, w) ==
  /\ calls[c].pc = "t_users"
  /\ w \in calls[c].pending
  /\ LET rec == calls[c]
         r1 == IF w = "cur" THEN [rec EXCEPT !.cur = FindUser(rec.userId)]
                            ELSE [rec EXCEPT !.oth = FindUser(rec.target)]
         r2 == [r1 EXCEPT !.pending = @ \ {w}]
     IN calls' = [calls EXCEPT ![c] =
                    IF r2.pending = {} THEN ToggleAfterUsers(r2) ELSE r2]
  /\ UNCHANGED <<db, ops, faulty>>

\* Line 1208: currentUser.save() / userToFollow.save() after the arrays were
\* reassigned: $set of the whole array where __v is the loaded one.
ToggleSaveUser(c, w) ==
  /\ calls[c].pc = "t_save"
  /\ w \in calls[c].pending
  /\ LET rec == calls[c]
         uid == IF w = "cur" THEN rec.userId ELSE rec.target
         doc == IF w = "cur" THEN rec.cur ELSE rec.oth
         ok  == users[uid].v = doc.v
         r1  == [rec EXCEPT !.pending = @ \ {w},
                            !.failed = @ \/ ~ok]
     IN /\ users' = IF ~ok THEN users
                    ELSE IF w = "cur"
                      THEN [users EXCEPT ![uid].following = doc.following,
                                         ![uid].v = @ + 1]
                      ELSE [users EXCEPT ![uid].followers = doc.followers,
                                         ![uid].v = @ + 1]
        /\ calls' = [calls EXCEPT ![c] =
             IF r1.pending # {} THEN r1
             ELSE IF r1.failed THEN Respond(r1, 500, "Internal server error")
             ELSE [r1 EXCEPT !.pc = "t_cleanup"]]
  /\ UNCHANGED <<requests, nextId, mcs, notifs, ops, faulty>>

\* Faulty variant of ToggleCleanup: the follow request is not deleted.
ToggleCleanup_NoDelete(c) ==
  /\ calls[c].pc = "t_cleanup"
  /\ calls' = [calls EXCEPT ![c] = Respond(calls[c], 200, "unfollowed")]
  /\ UNCHANGED <<db, ops, faulty>>

\* Lines 1211-1223: FollowRequest.findOneAndDelete({requester, recipient}),
\* then 200 'unfollowed'.
ToggleCleanup(c) ==
  /\ calls[c].pc = "t_cleanup"
  /\ LET rec == calls[c] IN
     /\ requests' = requests \ {FindRequest(rec.userId, rec.target)}
     /\ calls' = [calls EXCEPT ![c] = Respond(rec, 200, "unfollowed")]
  /\ UNCHANGED <<users, nextId, mcs, notifs, ops, faulty>>

\* Faulty variant of ToggleFindRequest: a pending request is replaced like
\* an accepted or rejected one.
ToggleFindRequest_NoConflict(c) ==
  /\ calls[c].pc = "t_find"
  /\ LET rec == calls[c]
         existing == FindRequest(rec.userId, rec.target)
     IN calls' = [calls EXCEPT ![c] =
          IF existing = NoReq THEN [rec EXCEPT !.pc = "t_create"]
          ELSE [rec EXCEPT !.pc = "t_delete", !.req = existing]]
  /\ UNCHANGED <<db, ops, faulty>>

\* Lines 1227-1247: FollowRequest.findOne({requester, recipient}); 409 when
\* it is pending, delete it first when it is accepted or rejected.
ToggleFindRequest(c) ==
  /\ calls[c].pc = "t_find"
  /\ LET rec == calls[c]
         existing == FindRequest(rec.userId, rec.target)
     IN calls' = [calls EXCEPT ![c] =
          IF existing = NoReq THEN [rec EXCEPT !.pc = "t_create"]
          ELSE IF existing.status = "pending"
            THEN Respond([rec EXCEPT !.req = existing], 409,
                         "Follow request already sent")
          ELSE [rec EXCEPT !.pc = "t_delete", !.req = existing]]
  /\ UNCHANGED <<db, ops, faulty>>

\* Faulty variant of ToggleDeleteOld: the old request is not deleted.
ToggleDeleteOld_Skip(c) ==
  /\ calls[c].pc = "t_delete"
  /\ calls' = [calls EXCEPT ![c].pc = "t_create"]
  /\ UNCHANGED <<db, ops, faulty>>

\* Line 1245: FollowRequest.findByIdAndDelete(existingRequest._id).
ToggleDeleteOld(c) ==
  /\ calls[c].pc = "t_delete"
  /\ requests' = {r \in requests : r.id # calls[c].req.id}
  /\ calls' = [calls EXCEPT ![c].pc = "t_create"]
  /\ UNCHANGED <<users, nextId, mcs, notifs, ops, faulty>>

\* Lines 1250-1255 and 1291-1299: FollowRequest.create({requester,
\* recipient, status: 'pending'}); E11000 of the unique index gives 409.
ToggleCreateRequest(c) ==
  /\ calls[c].pc = "t_create"
  /\ LET rec == calls[c] IN
     IF RequestDuplicate(rec.userId, rec.target)
       THEN /\ calls' = [calls EXCEPT ![c] =
                 Respond([rec EXCEPT !.req = NoReq], 409,
                         "Follow request already exists")]
            /\ UNCHANGED <<requests, nextId>>
       ELSE LET new == [id |-> nextId, requester |-> rec.userId,
                        recipient |-> rec.target, status |-> "pending"]
            IN /\ requests' = requests \cup {new}
               /\ nextId' = nextId + 1
               /\ calls' = [calls EXCEPT ![c] =
                    [rec EXCEPT !.pc = "t_notify", !.req = new]]
  /\ UNCHANGED <<users, mcs, notifs, ops, faulty>>

\* Lines 1257-1290: the follow_request notification for the recipient, whose
\* failure is swallowed, then 201.
ToggleNotify(c) ==
  /\ calls[c].pc = "t_notify"
  /\ LET rec == calls[c] IN
     /\ notifs' \in createNotification(notifs, rec.target, rec.userId,
                                        "follow_request")
     /\ calls' = [calls EXCEPT ![c] =
          Respond([rec EXCEPT !.sent = @ \cup {<<rec.target, "follow_request">>}],
                  201, "Follow request sent successfully")]
  /\ UNCHANGED <<users, requests, nextId, mcs, ops, faulty>>

\* ----------------------------------------------------- acceptFollowRequest
\* Lines 1383-1386: userId from the session, requestId from the path.
AcceptBegin(c, u, r) ==
  /\ FreeSlot(c)
  /\ ops' = ops + 1
  /\ calls' = [calls EXCEPT ![c] =
       [Idle EXCEPT !.op = "accept", !.userId = u, !.requestId = r,
                    !.pc = "a_find"]]
  /\ UNCHANGED <<db, faulty>>

\* Faulty variant of RequestGuard: the status check is missing.
RequestGuard_NoStatus(request, userId) ==
  IF request = NoReq THEN 404
  ELSE IF request.recipient # userId THEN 403
  ELSE 0

\* The guards shared by accept (lines 1389-1411) and reject (lines
\* 1584-1606) on the request that findById returned: the response status,
\* 0 when the request passes.
RequestGuard(request, userId) ==
  IF request = NoReq THEN 404
  ELSE IF request.recipient # userId THEN 403
  ELSE IF request.status # "pending" THEN 400
  ELSE 0

GuardMessage(code) ==
  IF code = 404 THEN "Follow request not found"
  ELSE IF code = 403 THEN "Not authorized"
  ELSE "Request is already processed"

\* Lines 1388-1417: FollowRequest.findById, the three guards, then both
\* users are fetched in parallel.
AcceptFindRequest(c) ==
  /\ calls[c].pc = "a_find"
  /\ LET rec == calls[c]
         request == FindRequestById(rec.requestId)
         code == RequestGuard(request, rec.userId)
     IN calls' = [calls EXCEPT ![c] =
          IF code # 0 THEN Respond(rec, code, GuardMessage(code))
          ELSE [rec EXCEPT !.pc = "a_users", !.req = request,
                           !.pending = {"cur", "oth"}]]
  /\ UNCHANGED <<db, ops, faulty>>

\* Faulty variant of AcceptAfterUsers: the recipient's followers array is
\* left alone.
AcceptAfterUsers_NoFollowers(rec) ==
  LET pushCur == ~Contains(rec.cur.following, rec.req.recipient)
  IN [rec EXCEPT
        !.pc = "a_save",
        !.cur = IF pushCur
                  THEN [@ EXCEPT !.following = Append(@, rec.req.recipient)]
                  ELSE @,
        !.req = [@ EXCEPT !.status = "accepted"],
        !.pending = {"req"} \cup (IF pushCur THEN {"cur"} ELSE {})]

\* Lines 1419-1448 once both users are loaded: 404 when one is missing; push
\* each id that the loaded array lacks, set status = 'accepted', save the
\* three documents in parallel.  cur is the requester, oth the recipient.
AcceptAfterUsers(rec) ==
  LET pushCur == ~Contains(rec.cur.following, rec.req.recipient)
      pushOth == ~Contains(rec.oth.followers, rec.req.requester)
  IN IF rec.cur = NoDoc \/ rec.oth = NoDoc
       THEN Respond(rec, 404, "User not found")
     ELSE
     [rec EXCEPT
        !.pc = "a_save",
        !.cur = IF pushCur
                  THEN [@ EXCEPT !.following = Append(@, rec.req.recipient)]
                  ELSE @,
        !.oth = IF pushOth
                  THEN [@ EXCEPT !.followers = Append(@, rec.req.requester)]
                  ELSE @,
        !.req = [@ EXCEPT !.status = "accepted"],
        !.pending = {"req"} \cup (IF pushCur THEN {"cur"} ELSE {})
                            \cup (IF pushOth THEN {"oth"} ELSE {})]

\* Lines 1414-1417: User.findById(request.requester) /
\* User.findById(request.recipient).
AcceptReadUser(c, w) ==
  /\ calls[c].pc = "a_users"
  /\ w \in calls[c].pending
  /\ LET rec == calls[c]
         r1 == IF w = "cur"
                 THEN [rec EXCEPT !.cur = FindUser(rec.req.requester)]
                 ELSE [rec EXCEPT !.oth = FindUser(rec.req.recipient)]
         r2 == [r1 EXCEPT !.pending = @ \ {w}]
     IN calls' = [calls EXCEPT ![c] =
                    IF r2.pending = {} THEN AcceptAfterUsers(r2) ELSE r2]
  /\ UNCHANGED <<db, ops, faulty>>

\* request.save() of accept and reject: $set of status by _id;
\* DocumentNotFoundError when no document has that _id.
SaveRequestStatus(request) ==
  {IF r.id = request.id THEN [r EXCEPT !.status = request.status] ELSE r :
     r \in requests}

\* Lines 1444-1448: requester.save() ($push recipient to following),
\* recipient.save() ($push requester to followers), request.save().  A
\* rejected save rejects Promise.all (500 at line 1569) while the other
\* saves, already issued, still execute.
AcceptSave(c, w) ==
  /\ calls[c].pc = "a_save"
  /\ w \in calls[c].pending
  /\ LET rec == calls[c]
         found == \E r \in requests : r.id = rec.req.id
         r1 == [rec EXCEPT !.pending = @ \ {w},
                           !.failed = @ \/ (w = "req" /\ ~found)]
     IN /\ users' =
             IF w = "cur"
               THEN [users EXCEPT
                       ![rec.req.requester].following =
                           Append(@, rec.req.recipient),
                       ![rec.req.requester].v = @ + 1]
             ELSE IF w = "oth"
               THEN [users EXCEPT
                       ![rec.req.recipient].followers =
                           Append(@, rec.req.requester),
                       ![rec.req.recipient].v = @ + 1]
             ELSE users
        /\ requests' = IF w = "req" THEN SaveRequestStatus(rec.req)
                                    ELSE requests
        /\ calls' = [calls EXCEPT ![c] =
             IF r1.pending # {} THEN r1
             ELSE IF r1.failed THEN Respond(r1, 500, "Internal server error")
             ELSE [r1 EXCEPT !.pc = "a_notify"]]
  /\ UNCHANGED <<nextId, mcs, notifs, ops, faulty>>

\* Faulty variant of AcceptNotify: a failed Notification.create is thrown to
\* the handler's catch (500).
AcceptNotify_Throws(c) ==
  /\ calls[c].pc = "a_notify"
  /\ LET rec == calls[c]
         n == [user |-> rec.req.requester, fromUser |-> rec.req.recipient,
               type |-> "follow_accepted"]
     IN \/ /\ notifs' = notifs (+) SetToBag({n})
           /\ calls' = [calls EXCEPT ![c] =
                [rec EXCEPT !.pc = "a_findmc",
                   !.sent = @ \cup {<<rec.req.requester, "follow_accepted">>}]]
        \/ /\ faulty
           /\ notifs' = notifs
           /\ calls' = [calls EXCEPT ![c] =
                Respond(rec, 500, "Internal server error")]
  /\ UNCHANGED <<users, requests, nextId, mcs, ops, faulty>>

\* Lines 1451-1458: the follow_accepted notification for the requester.
AcceptNotify(c) ==
  /\ calls[c].pc = "a_notify"
  /\ LET rec == calls[c] IN
     /\ notifs' \in createNotification(notifs, rec.req.requester,
                                        rec.req.recipient, "follow_accepted")
     /\ calls' = [calls EXCEPT ![c] =
          [rec EXCEPT !.pc = "a_findmc",
             !.sent = @ \cup {<<rec.req.requester, "follow_accepted">>}]]
  /\ UNCHANGED <<users, requests, nextId, mcs, ops, faulty>>

\* Lines 1461-1477, 1511 and 1540: look the connection of the pair up; create
\* it when absent, reactivate it when inactive, else respond 200.
AcceptFindMC(c) ==
  /\ calls[c].pc = "a_findmc"
  /\ LET rec == calls[c]
         pair == SortedPair(rec.req.requester, rec.req.recipient)
         i == FindMC(pair[1], pair[2], CanonicalId(pair[1], pair[2]))
     IN calls' = [calls EXCEPT ![c] =
          IF i = 0 THEN [rec EXCEPT !.pc = "a_createmc", !.mcWas = "absent"]
          ELSE IF ~mcs[i].isActive
            THEN [rec EXCEPT !.pc = "a_savemc", !.mc = i,
                             !.mcWas = "inactive"]
          ELSE Respond([rec EXCEPT !.mc = i, !.mcWas = "active"], 200,
                       "Follow request accepted successfully")]
  /\ UNCHANGED <<db, ops, faulty>>

\* Lines 1483-1490: MutualConnection.create; a duplicate key error is thrown
\* to the outer catch (500).
AcceptCreateMC(c) ==
  /\ calls[c].pc = "a_createmc"
  /\ LET rec == calls[c]
         pair == SortedPair(rec.req.requester, rec.req.recipient)
         cid == CanonicalId(pair[1], pair[2])
     IN IF MCDuplicate(pair[1], pair[2], cid)
          THEN /\ calls' = [calls EXCEPT ![c] =
                    Respond(rec, 500, "Internal server error")]
               /\ UNCHANGED mcs
          ELSE /\ mcs' = Append(mcs, [user1 |-> pair[1], user2 |-> pair[2],
                                      connectionId |-> cid,
                                      createdFrom |-> rec.req.id,
                                      isActive |-> TRUE])
               /\ calls' = [calls EXCEPT ![c] =
                    [rec EXCEPT !.pc = "a_notifymc", !.mc = Len(mcs) + 1]]
  /\ UNCHANGED <<users, requests, nextId, notifs, ops, faulty>>

\* Faulty variant of AcceptSaveMC: the connection is not reactivated.
AcceptSaveMC_Skip(c) ==
  /\ calls[c].pc = "a_savemc"
  /\ calls' = [calls EXCEPT ![c].pc = "a_notifymc"]
  /\ UNCHANGED <<db, ops, faulty>>

\* Lines 1513-1514: mutualConnection.isActive = true; save().
AcceptSaveMC(c) ==
  /\ calls[c].pc = "a_savemc"
  /\ mcs' = [mcs EXCEPT ![calls[c].mc].isActive = TRUE]
  /\ calls' = [calls EXCEPT ![c].pc = "a_notifymc"]
  /\ UNCHANGED <<users, requests, nextId, notifs, ops, faulty>>

\* Faulty variant of AcceptNotifyMC: only the requester is notified.
AcceptNotifyMC_OneParty(c) ==
  /\ calls[c].pc = "a_notifymc"
  /\ LET rec == calls[c]
         type == IF rec.mcWas = "absent" THEN "mutual_connection_created"
                 ELSE "mutual_connection_reactivated"
     IN /\ notifs' \in createNotification(notifs, rec.req.requester,
                                           rec.req.recipient, type)
        /\ calls' = [calls EXCEPT ![c] =
             Respond([rec EXCEPT !.sent = @ \cup {<<rec.req.requester, type>>}],
                     200, "Follow request accepted successfully")]
  /\ UNCHANGED <<users, requests, nextId, mcs, ops, faulty>>

\* Lines 1493-1510 and 1517-1534: one notification for each party, of type
\* mutual_connection_created or mutual_connection_reactivated, then 200.
AcceptNotifyMC(c) ==
  /\ calls[c].pc = "a_notifymc"
  /\ LET rec == calls[c]
         type == IF rec.mcWas = "absent" THEN "mutual_connection_created"
                 ELSE "mutual_connection_reactivated"
     IN /\ \E n1 \in createNotification(notifs, rec.req.requester,
                                        rec.req.recipient, type) :
             notifs' \in createNotification(n1, rec.req.recipient,
                                            rec.req.requester, type)
        /\ calls' = [calls EXCEPT ![c] =
             Respond([rec EXCEPT !.sent = @ \cup {<<rec.req.requester, type>>,
                                                  <<rec.req.recipient, type>>}],
                     200, "Follow request accepted successfully")]
  /\ UNCHANGED <<users, requests, nextId, mcs, ops, faulty>>

\* ----------------------------------------------------- rejectFollowRequest
\* Lines 1578-1581.
RejectBegin(c, u, r) ==
  /\ FreeSlot(c)
  /\ ops' = ops + 1
  /\ calls' = [calls EXCEPT ![c] =
       [Idle EXCEPT !.op = "reject", !.userId = u, !.requestId = r,
                    !.pc = "r_find"]]
  /\ UNCHANGED <<db, faulty>>

\* Lines 1584-1609: FollowRequest.findById, the three guards, then
\* status = 'rejected' on the loaded document.
RejectFindRequest(c) ==
  /\ calls[c].pc = "r_find"
  /\ LET rec == calls[c]
         request == FindRequestById(rec.requestId)
         code == RequestGuard(request, rec.userId)
     IN calls' = [calls EXCEPT ![c] =
          IF code # 0 THEN Respond(rec, code, GuardMessage(code))
          ELSE [rec EXCEPT !.pc = "r_save",
                           !.req = [request EXCEPT !.status = "rejected"]]]
  /\ UNCHANGED <<db, ops, faulty>>

\* Faulty variant of RejectSave: the request is deleted instead of marked.
RejectSave_Deletes(c) ==
  /\ calls[c].pc = "r_save"
  /\ LET rec == calls[c]
         found == \E r \in requests : r.id = rec.req.id
     IN /\ requests' = {r \in requests : r.id # rec.req.id}
        /\ calls' = [calls EXCEPT ![c] =
             IF found
               THEN Respond(rec, 200, "Follow request rejected successfully")
               ELSE Respond(rec, 500, "Internal server error")]
  /\ UNCHANGED <<users, nextId, mcs, notifs, ops, faulty>>

\* Lines 1610-1619: request.save(), then 200; a failed save gives 500.
RejectSave(c) ==
  /\ calls[c].pc = "r_save"
  /\ LET rec == calls[c]
         found == \E r \in requests : r.id = rec.req.id
     IN /\ requests' = SaveRequestStatus(rec.req)
        /\ calls' = [calls EXCEPT ![c] =
             IF found
               THEN Respond(rec, 200, "Follow request rejected successfully")
               ELSE Respond(rec, 500, "Internal server error")]
  /\ UNCHANGED <<users, nextId, mcs, notifs, ops, faulty>>

\* ------------------------------------------------------------ environment
\* The deactivation path of a MutualConnection, which lies outside the
\* handlers modelled here: isActive true -> false.
Deactivate(i) ==
  /\ i \in 1..Len(mcs)
  /\ mcs[i].isActive
  /\ mcs' = [mcs EXCEPT ![i].isActive = FALSE]
  /\ UNCHANGED <<users, requests, nextId, notifs, calls, ops, faulty, msgvars, sockvars>>

\* ----------------------------------------------------------- checkConnection
\* Lines 1654-1668: pure read of both following arrays.
\* us is the User collection the two documents are read from.
checkConnection(us, userId, otherUserId) ==
  LET isFollowing == Contains(us[userId].following, otherUserId)
      isFollowedBy == Contains(us[otherUserId].following, userId)
  IN [isFollowing |-> isFollowing, isFollowedBy |-> isFollowedBy,
      isConnected |-> isFollowing /\ isFollowedBy]

\* -------------------------------------------------------- specifications
\* Request ids a caller may name: every id issued so far, and 0 for an id
\* that no request has.
RequestIds == 0..(nextId - 1)

LifecycleStep ==
  \/ \E c \in Calls, w \in {"cur", "oth"} : ToggleReadUser(c, w)
  \/ \E c \in Calls, w \in {"cur", "oth"} : ToggleSaveUser(c, w)
  \/ \E c \in Calls : ToggleCleanup(c)
  \/ \E c \in Calls : ToggleFindRequest(c)
  \/ \E c \in Calls : ToggleDeleteOld(c)
  \/ \E c \in Calls : ToggleCreateRequest(c)
  \/ \E c \in Calls : ToggleNotify(c)
  \/ \E c \in Calls : AcceptFindRequest(c)
  \/ \E c \in Calls, w \in {"cur", "oth"} : AcceptReadUser(c, w)
  \/ \E c \in Calls, w \in {"cur", "oth", "req"} : AcceptSave(c, w)
  \/ \E c \in Calls : AcceptNotify(c)
  \/ \E c \in Calls : AcceptFindMC(c)
  \/ \E c \in Calls : AcceptCreateMC(c)
  \/ \E c \in Calls : AcceptSaveMC(c)
  \/ \E c \in Calls : AcceptNotifyMC(c)
  \/ \E c \in Calls : RejectFindRequest(c)
  \/ \E c \in Calls : RejectSave(c)

\* The lifecycle handlers touch no message state.
Step == LifecycleStep /\ UNCHANGED <<msgvars, sockvars>>

LifecycleBegin ==
  \/ \E c \in Calls, u \in Users, t \in Users \cup {NoUser, UnknownUser} :
       ToggleBegin(c, u, t)
  \/ \E c \in Calls, u \in Users, r \in RequestIds : AcceptBegin(c, u, r)
  \/ \E c \in Calls, u \in Users, r \in RequestIds : RejectBegin(c, u, r)

Begin == LifecycleBegin /\ UNCHANGED <<msgvars, sockvars>>

\* Handlers of concurrent HTTP requests interleave at their awaits.
Next ==
  \/ ops < MaxOps /\ Begin
  \/ Step
  \/ \E i \in 1..Len(mcs) : Deactivate(i)

Spec == Init /\ [][Next]_vars

\* One HTTP request at a time: a handler begins only when none is running.
NextSeq ==
  \/ Quiet /\ ops < MaxOpsSeq /\ Begin
  \/ Step
  \/ Quiet /\ \E i \in 1..Len(mcs) : Deactivate(i)

SpecSeq == Init /\ [][NextSeq]_vars

\* One HTTP request at a time while the Notification collection may refuse
\* inserts.
InitFaulty ==
  /\ users = [u \in Users |-> NewUser]
  /\ requests = {}
  /\ nextId = 1
  /\ mcs = <<>>
  /\ notifs = EmptyBag
  /\ calls = [c \in Calls |-> Idle]
  /\ ops = 0
  /\ faulty = TRUE
  /\ NoMessaging
  /\ NoSockets

NextFaulty ==
  \/ Quiet /\ ops < MaxOpsFaulty /\ Begin
  \/ Step
  \/ Quiet /\ \E i \in 1..Len(mcs) : Deactivate(i)

SpecFaulty == InitFaulty /\ [][NextFaulty]_vars

\* ------------------------------------------------- createNotification alone
\* notificationSchema.type enum.
NotifTypes ==
  {"follow_request", "follow_accepted", "new_post", "new_story",
   "profile_update", "merge_request", "merge_request_accepted",
   "merge_request_rejected", "mutual_connection_created",
   "mutual_connection_reactivated"}

\* A caller awaits createNotification(userId, fromUserId, type, ...) and
\* gets the stored notification or null; target holds fromUserId.
Emit(c, userId, fromUserId, type) ==
  /\ FreeSlot(c)
  /\ BagCardinality(notifs) < MaxNotifs
  /\ notifs' \in createNotification(notifs, userId, fromUserId, type)
  /\ calls' = [calls EXCEPT ![c] =
       [Idle EXCEPT !.op = "emit", !.userId = userId, !.target = fromUserId,
                    !.pc = "done",
                    !.res = [status |-> 0,
                             msg |-> IF notifs' = notifs THEN "null" ELSE type]]]
  /\ UNCHANGED <<users, requests, nextId, mcs, ops, faulty, msgvars, sockvars>>

InitNotif ==
  /\ users = [u \in Users |-> NewUser]
  /\ requests = {}
  /\ nextId = 1
  /\ mcs = <<>>
  /\ notifs = EmptyBag
  /\ calls = [c \in Calls |-> Idle]
  /\ ops = 0
  /\ faulty \in BOOLEAN
  /\ NoMessaging
  /\ NoSockets

NextNotif ==
  \E c \in Calls, userId \in Users, fromUserId \in Users, type \in NotifTypes :
    Emit(c, userId, fromUserId, type)

SpecNotif == InitNotif /\ [][NextNotif]_vars

\* ---------------------------------------------------------------- messages
\* sendMessage, getMessages, getUnreadMessageCount and markMessagesAsRead on
\* a MutualConnection, routed under /api/mutual-connections.  The caller is
\* the authenticated user of the request.

\* An authenticated user who is a member of no MutualConnection.
Outsider == 3

\* req.body.content: missing or empty, blank, text.
Contents == {"", " ", "hi"}

\* content.trim()
Trim(str) == IF str = " " THEN "" ELSE str

\* parseInt(req.query.page) || 1 and parseInt(req.query.limit) || 50.
DefaultLimit == 50
Pages == {1, 2}
Limits == {1, DefaultLimit}

\* mutualConnection.user1 === userId || mutualConnection.user2 === userId
IsMember(m, u) == mcs[m].user1 = u \/ mcs[m].user2 = u

\* The receiver of a message of u on connection m: user2 when u is user1,
\* else user1.
Receiver(m, u) == IF mcs[m].user1 = u THEN mcs[m].user2 ELSE mcs[m].user1

\* A Message document as Message.create stores it; isRead defaults to false.
NewMessage(m, sender, receiver, content) ==
  [mc |-> m, sender |-> sender, receiver |-> receiver,
   content |-> Trim(content), isRead |-> FALSE]

\* MutualConnection.findById and the membership check that every message
\* handler starts with: 404, 403, or 0 when the caller may go on.
ConnectionGuard(m, u) ==
  IF m \notin 1..Len(mcs) THEN 404
  ELSE IF ~IsMember(m, u) THEN 403
  ELSE 0

\* The _ids of the messages of connection m in msgs, oldest first.
ConnMessages(msgs, m) ==
  SelectSeq([i \in 1..Len(msgs) |-> i], LAMBDA i : msgs[i].mc = m)

\* Array.prototype.reverse / sort({createdAt: -1}) of an ascending list.
Reverse(seq) == [i \in 1..Len(seq) |-> seq[Len(seq) + 1 - i]]

\* .skip(skip).limit(limit)
Page(seq, skip, limit) ==
  SubSeq(seq, skip + 1, IF skip + limit < Len(seq) THEN skip + limit
                                                   ELSE Len(seq))

\* Faulty variant of MarkRead: the receiver is not part of the filter.
MarkRead_AnyReceiver(msgs, m, u) ==
  [i \in 1..Len(msgs) |->
     IF msgs[i].mc = m /\ ~msgs[i].isRead
       THEN [msgs[i] EXCEPT !.isRead = TRUE]
       ELSE msgs[i]]

\* Message.updateMany({mutualConnection, receiver, isRead: false},
\* {$set: {isRead: true}})
MarkRead(msgs, m, u) ==
  [i \in 1..Len(msgs) |->
     IF msgs[i].mc = m /\ msgs[i].receiver = u /\ ~msgs[i].isRead
       THEN [msgs[i] EXCEPT !.isRead = TRUE]
       ELSE msgs[i]]

\* Message.countDocuments({mutualConnection, receiver, isRead: false})
Unread(msgs, m, u) ==
  Cardinality({i \in 1..Len(msgs) :
                 msgs[i].mc = m /\ msgs[i].receiver = u /\ ~msgs[i].isRead})

MInFlight(c) == mcalls[c].pc \notin {"idle", "done"}

\* A new invocation takes the lowest slot that holds no running handler.
MFreeSlot(c) == ~MInFlight(c) /\ \A d \in MCalls : d < c => MInFlight(d)

\* res.status(code).json(...) ends the handler.
MRespond(rec, code, msg) ==
  [rec EXCEPT !.pc = "done", !.res = [status |-> code, msg |-> msg]]

\* The first await of every message handler: load the connection, answer
\* 404 or 403 (with the handler's message), else go on at pc next.
LoadConnection(rec, denied, next) ==
  LET code == ConnectionGuard(rec.mcId, rec.userId)
  IN IF code = 404 THEN MRespond(rec, 404, "Mutual connection not found")
     ELSE IF code = 403 THEN MRespond(rec, 403, denied)
     ELSE [rec EXCEPT !.pc = next]

\* ====================================================================
\* Real-time sessions (config/socket.js)
\* ====================================================================
\* The token of a handshake: the userId its payload decodes to, NoUser when
\* the token is missing or does not verify.
Tokens == Users \cup {Outsider, NoUser}

\* otherUserId / receiverId of a client event: any user id, or missing.
OtherIds == Users \cup {Outsider, NoUser}

\* Map.prototype.set, delete and has.
MapSet(map, k, v) ==
  [x \in (DOMAIN map) \cup {k} |-> IF x = k THEN v ELSE map[x]]
MapDelete(map, k) == [x \in (DOMAIN map) \ {k} |-> map[x]]
isUserOnline(map, userId) == userId \in DOMAIN map

\* `user_${userId}`
UserRoom(userId) == <<"user", userId>>

\* Faulty variant of RoomId: the ids are joined without being sorted.
RoomId_Unsorted(userId, otherUserId) == <<userId, otherUserId>>

\* [userId, otherUserId].sort().join('_'): the two ids in string order; an
\* undefined otherUserId sorts last and joins as the empty string.
RoomId(userId, otherUserId) ==
  IF otherUserId = NoUser THEN <<userId, NoUser>>
  ELSE IF userId <= otherUserId THEN <<userId, otherUserId>>
  ELSE <<otherUserId, userId>>

\* `conversation_${roomId}`
ConversationRoom(userId, otherUserId) ==
  <<"conversation", RoomId(userId, otherUserId)>>

\* An event as a client receives it: its name and payload.
SockEvent(type, userId, msg, mc) ==
  [type |-> type, userId |-> userId, msg |-> msg, mc |-> mc]

\* A socket right after its connection handler ran: it is in its own user
\* room and has received nothing.
NewSocket(userId) ==
  [userId |-> userId, live |-> TRUE, rooms |-> {UserRoom(userId)},
   inbox |-> <<>>]

\* io.to(room).emit(ev): every connected socket in the room receives ev.
EmitTo(socks, room, ev) ==
  [i \in 1..Len(socks) |->
     IF socks[i].live /\ room \in socks[i].rooms
       THEN [socks[i] EXCEPT !.inbox = Append(@, ev)]
       ELSE socks[i]]

\* socket.to(room).emit(ev): as EmitTo, but never the socket s itself.
SocketTo(socks, s, room, ev) ==
  [i \in 1..Len(socks) |->
     IF socks[i].live /\ i # s /\ room \in socks[i].rooms
       THEN [socks[i] EXCEPT !.inbox = Append(@, ev)]
       ELSE socks[i]]

\* socket.broadcast.emit(ev): every connected socket but s receives ev.
BroadcastEmit(socks, s, ev) ==
  [i \in 1..Len(socks) |->
     IF socks[i].live /\ i # s
       THEN [socks[i] EXCEPT !.inbox = Append(@, ev)]
       ELSE socks[i]]

\* Faulty variant of SocketConnect: the online event goes to every socket,
\* the connecting one included.
SocketConnect_EmitsToAll(token) ==
  /\ sops' = sops + 1
  /\ IF token = NoUser
       THEN UNCHANGED <<sockets, activeUsers>>
       ELSE LET s == Len(sockets) + 1 IN
            /\ activeUsers' = MapSet(activeUsers, token, s)
            /\ sockets' =
                 BroadcastEmit(Append(sockets, NewSocket(token)), 0,
                               SockEvent("user-online", token, 0, 0))
  /\ UNCHANGED <<lcvars, msgvars>>

\* Lines 18-50: the handshake middleware refuses a missing or invalid token
\* (no socket comes to exist); else the connection handler stores the socket
\* id under the user, joins the user's room and broadcasts 'user-online'.
SocketConnect(token) ==
  /\ sops' = sops + 1
  /\ IF token = NoUser
       THEN UNCHANGED <<sockets, activeUsers>>
       ELSE LET s == Len(sockets) + 1 IN
            /\ activeUsers' = MapSet(activeUsers, token, s)
            /\ sockets' =
                 Append(BroadcastEmit(sockets, s,
                                      SockEvent("user-online", token, 0, 0)),
                        NewSocket(token))
  /\ UNCHANGED <<lcvars, msgvars>>

\* Lines 53-57: on 'disconnect' (the socket has left its rooms by then) the
\* user's entry is deleted and 'user-offline' is broadcast.
SocketDisconnect(s) ==
  /\ s \in 1..Len(sockets)
  /\ sockets[s].live
  /\ sops' = sops + 1
  /\ activeUsers' = MapDelete(activeUsers, sockets[s].userId)
  /\ sockets' =
       BroadcastEmit([sockets EXCEPT ![s].live = FALSE, ![s].rooms = {}], s,
                     SockEvent("user-offline", sockets[s].userId, 0, 0))
  /\ UNCHANGED <<lcvars, msgvars>>

\* Lines 60-71: 'typing' and 'stop-typing' are relayed to the room of the
\* named receiver.
SocketTyping(s, receiverId, type) ==
  /\ s \in 1..Len(sockets)
  /\ sockets[s].live
  /\ sops' = sops + 1
  /\ sockets' = SocketTo(sockets, s, UserRoom(receiverId),
                         SockEvent(type, sockets[s].userId, 0, 0))
  /\ UNCHANGED <<lcvars, msgvars, activeUsers>>

\* socket.join(room) and socket.leave(room) on the set of rooms of a socket.
Join(rooms, room) == rooms \cup {room}
Leave(rooms, room) == rooms \ {room}

\* Faulty variant of SocketJoinConversation: the socket joins the user room
\* of the named user.
SocketJoinConversation_UserRoom(s, otherUserId) ==
  /\ s \in 1..Len(sockets)
  /\ sockets[s].live
  /\ sops' = sops + 1
  /\ sockets' = [sockets EXCEPT ![s].rooms = Join(@, UserRoom(otherUserId))]
  /\ UNCHANGED <<lcvars, msgvars, activeUsers>>

\* Lines 74-77: 'join-conversation'.
SocketJoinConversation(s, otherUserId) ==
  /\ s \in 1..Len(sockets)
  /\ sockets[s].live
  /\ sops' = sops + 1
  /\ sockets' = [sockets EXCEPT ![s].rooms =
       Join(@, ConversationRoom(sockets[s].userId, otherUserId))]
  /\ UNCHANGED <<lcvars, msgvars, activeUsers>>

\* Lines 80-83: 'leave-conversation'.
SocketLeaveConversation(s, otherUserId) ==
  /\ s \in 1..Len(sockets)
  /\ sockets[s].live
  /\ sops' = sops + 1
  /\ sockets' = [sockets EXCEPT ![s].rooms =
       Leave(@, ConversationRoom(sockets[s].userId, otherUserId))]
  /\ UNCHANGED <<lcvars, msgvars, activeUsers>>

\* ------------------------------------------------------------- sendMessage
\* Lines 9-20: the content check runs before the connection is loaded.
MsgSendBegin(c, u, m, content) ==
  /\ MFreeSlot(c)
  /\ mops' = mops + 1
  /\ LET rec == [MIdle EXCEPT !.op = "send", !.userId = u, !.mcId = m,
                              !.content = content]
     IN mcalls' = [mcalls EXCEPT ![c] =
          IF content = "" \/ Trim(content) = ""
            THEN MRespond(rec, 400, "Message content is required")
            ELSE [rec EXCEPT !.pc = "s_load"]]
  /\ UNCHANGED <<lcvars, sockvars, messages, events>>

\* Faulty variant of MsgSendLoad: the membership check is missing.
MsgSendLoad_NoMemberCheck(c) ==
  /\ mcalls[c].pc = "s_load"
  /\ LET rec == mcalls[c] IN
     mcalls' = [mcalls EXCEPT ![c] =
       IF rec.mcId \notin 1..Len(mcs)
         THEN MRespond(rec, 404, "Mutual connection not found")
         ELSE [rec EXCEPT !.pc = "s_create",
                          !.receiver = Receiver(rec.mcId, rec.userId)]]
  /\ UNCHANGED <<lcvars, sockvars, messages, events, mops>>

\* Lines 22-46: MutualConnection.findById, 404, 403, then the receiver is
\* the other member.
MsgSendLoad(c) ==
  /\ mcalls[c].pc = "s_load"
  /\ LET rec == mcalls[c]
         r1 == LoadConnection(rec, "Not authorized to send messages",
                              "s_create")
     IN mcalls' = [mcalls EXCEPT ![c] =
          IF r1.pc = "s_create"
            THEN [r1 EXCEPT !.receiver = Receiver(rec.mcId, rec.userId)]
            ELSE r1]
  /\ UNCHANGED <<lcvars, sockvars, messages, events, mops>>

\* Faulty variant of MsgSendCreate: the handler goes on without the Message
\* having been stored (create not awaited).
MsgSendCreate_NotPersisted(c) ==
  /\ mcalls[c].pc = "s_create"
  /\ mcalls' = [mcalls EXCEPT ![c] =
       [mcalls[c] EXCEPT !.pc = "s_populate", !.msg = Len(messages) + 1]]
  /\ UNCHANGED <<lcvars, sockvars, messages, events, mops>>

\* Lines 48-55: await Message.create({mutualConnection, sender, receiver,
\* content: content.trim(), ...}).
MsgSendCreate(c) ==
  /\ mcalls[c].pc = "s_create"
  /\ LET rec == mcalls[c] IN
     /\ messages' = Append(messages, NewMessage(rec.mcId, rec.userId,
                                               rec.receiver, rec.content))
     /\ mcalls' = [mcalls EXCEPT ![c] =
          [rec EXCEPT !.pc = "s_populate", !.msg = Len(messages) + 1]]
  /\ UNCHANGED <<lcvars, sockvars, events, mops>>

\* Lines 57-78: the three populate calls (reads), then 'new-message' is
\* emitted to the room user_<receiverId> and the handler answers 201.
MsgSendPopulate(c) ==
  /\ mcalls[c].pc = "s_populate"
  /\ LET rec == mcalls[c] IN
     /\ events' = events \cup {[room |-> <<"user", rec.receiver>>,
                                msg |-> rec.msg, mc |-> rec.mcId]}
     /\ sockets' = EmitTo(sockets, UserRoom(rec.receiver),
                          SockEvent("new-message", rec.userId, rec.msg,
                                    rec.mcId))
     /\ mcalls' = [mcalls EXCEPT ![c] =
          MRespond(rec, 201, "Message sent successfully")]
  /\ UNCHANGED <<lcvars, messages, mops, activeUsers, sops>>

\* ------------------------------------------------------------- getMessages
\* Lines 90-96: page and limit from the query string.
MsgHistoryBegin(c, u, m, page, limit) ==
  /\ MFreeSlot(c)
  /\ mops' = mops + 1
  /\ mcalls' = [mcalls EXCEPT ![c] =
       [MIdle EXCEPT !.op = "history", !.userId = u, !.mcId = m,
                     !.page = page, !.limit = limit, !.pc = "h_load"]]
  /\ UNCHANGED <<lcvars, sockvars, messages, events>>

\* Lines 98-117: MutualConnection.findById, 404, 403.
MsgHistoryLoad(c) ==
  /\ mcalls[c].pc = "h_load"
  /\ mcalls' = [mcalls EXCEPT ![c] =
       LoadConnection(mcalls[c], "Not authorized to view messages", "h_find")]
  /\ UNCHANGED <<lcvars, sockvars, messages, events, mops>>

\* Lines 119-127: Message.find({mutualConnection}).sort({createdAt: -1})
\* .skip((page - 1) * limit).limit(limit): a page, newest first.
MsgHistoryFind(c) ==
  /\ mcalls[c].pc = "h_find"
  /\ LET rec == mcalls[c] IN
     mcalls' = [mcalls EXCEPT ![c] =
       [rec EXCEPT !.pc = "h_mark",
          !.result = Page(Reverse(ConnMessages(messages, rec.mcId)),
                          (rec.page - 1) * rec.limit, rec.limit)]]
  /\ UNCHANGED <<lcvars, sockvars, messages, events, mops>>

\* Faulty variant of MsgHistoryMark: only the messages of the fetched page
\* are marked as read.
MsgHistoryMark_PageOnly(c) ==
  /\ mcalls[c].pc = "h_mark"
  /\ LET rec == mcalls[c] IN
     messages' = [i \in 1..Len(messages) |->
       IF /\ \E k \in 1..Len(rec.result) : rec.result[k] = i
          /\ messages[i].receiver = rec.userId
         THEN [messages[i] EXCEPT !.isRead = TRUE]
         ELSE messages[i]]
  /\ mcalls' = [mcalls EXCEPT ![c].pc = "h_count"]
  /\ UNCHANGED <<lcvars, sockvars, events, mops>>

\* Lines 130-142: Message.updateMany marks the caller's unread messages of
\* the connection as read.
MsgHistoryMark(c) ==
  /\ mcalls[c].pc = "h_mark"
  /\ messages' = MarkRead(messages, mcalls[c].mcId, mcalls[c].userId)
  /\ mcalls' = [mcalls EXCEPT ![c].pc = "h_count"]
  /\ UNCHANGED <<lcvars, sockvars, events, mops>>

\* Lines 144-157: Message.countDocuments({mutualConnection}), then 200 with
\* the page reversed to oldest first.
MsgHistoryCount(c) ==
  /\ mcalls[c].pc = "h_count"
  /\ LET rec == mcalls[c] IN
     mcalls' = [mcalls EXCEPT ![c] =
       MRespond([rec EXCEPT !.result = Reverse(@),
                   !.count = Len(ConnMessages(messages, rec.mcId))],
                200, "")]
  /\ UNCHANGED <<lcvars, sockvars, messages, events, mops>>

\* --------------------------------------------------- getUnreadMessageCount
\* Lines 169-172.
MsgUnreadBegin(c, u, m) ==
  /\ MFreeSlot(c)
  /\ mops' = mops + 1
  /\ mcalls' = [mcalls EXCEPT ![c] =
       [MIdle EXCEPT !.op = "unread", !.userId = u, !.mcId = m,
                     !.pc = "u_load"]]
  /\ UNCHANGED <<lcvars, sockvars, messages, events>>

\* Lines 174-193: MutualConnection.findById, 404, 403.
MsgUnreadLoad(c) ==
  /\ mcalls[c].pc = "u_load"
  /\ mcalls' = [mcalls EXCEPT ![c] =
       LoadConnection(mcalls[c], "Not authorized", "u_count")]
  /\ UNCHANGED <<lcvars, sockvars, messages, events, mops>>

\* Lines 195-204: Message.countDocuments({mutualConnection, receiver:
\* userId, isRead: false}), then 200 with unreadCount.
MsgUnreadCount(c) ==
  /\ mcalls[c].pc = "u_count"
  /\ LET rec == mcalls[c] IN
     mcalls' = [mcalls EXCEPT ![c] =
       MRespond([rec EXCEPT !.count = Unread(messages, rec.mcId, rec.userId)],
                200, "")]
  /\ UNCHANGED <<lcvars, sockvars, messages, events, mops>>

\* ------------------------------------------------------ markMessagesAsRead
\* Lines 216-219.
MsgMarkBegin(c, u, m) ==
  /\ MFreeSlot(c)
  /\ mops' = mops + 1
  /\ mcalls' = [mcalls EXCEPT ![c] =
       [MIdle EXCEPT !.op = "markRead", !.userId = u, !.mcId = m,
                     !.pc = "m_load"]]
  /\ UNCHANGED <<lcvars, sockvars, messages, events>>

\* Lines 221-240: MutualConnection.findById, 404, 403.
MsgMarkLoad(c) ==
  /\ mcalls[c].pc = "m_load"
  /\ mcalls' = [mcalls EXCEPT ![c] =
       LoadConnection(mcalls[c], "Not authorized", "m_update")]
  /\ UNCHANGED <<lcvars, sockvars, messages, events, mops>>

\* Faulty variant of MsgMarkUpdate: the connection is not part of the
\* filter.
MsgMarkUpdate_AllConnections(c) ==
  /\ mcalls[c].pc = "m_update"
  /\ LET rec == mcalls[c] IN
     /\ messages' = [i \in 1..Len(messages) |->
          IF messages[i].receiver = rec.userId
            THEN [messages[i] EXCEPT !.isRead = TRUE]
            ELSE messages[i]]
     /\ mcalls' = [mcalls EXCEPT ![c] =
          MRespond([rec EXCEPT !.count = Unread(messages, rec.mcId, rec.userId)],
                   200, "Messages marked as read")]
  /\ UNCHANGED <<lcvars, sockvars, events, mops>>

\* Lines 242-260: Message.updateMany, then 200 with updatedCount =
\* result.modifiedCount.
MsgMarkUpdate(c) ==
  /\ mcalls[c].pc = "m_update"
  /\ LET rec == mcalls[c] IN
     /\ messages' = MarkRead(messages, rec.mcId, rec.userId)
     /\ mcalls' = [mcalls EXCEPT ![c] =
          MRespond([rec EXCEPT !.count = Unread(messages, rec.mcId, rec.userId)],
                   200, "Messages marked as read")]
  /\ UNCHANGED <<lcvars, sockvars, events, mops>>

\* ------------------------------------------------ messaging specification
\* Connection ids a caller may name: every existing one and one that no
\* connection has.
ConnIds == 1..(Len(mcs) + 1)

\* Authenticated callers of the message routes.
Callers == Users \cup {Outsider}

\* The state after toggle(1, 2) answered 201 and accept of request 1 by
\* user 2 answered 200: user 1 follows user 2, the request is accepted, the
\* MutualConnection of the pair exists; no message was sent yet.
InitMsg ==
  /\ users = [u \in Users |->
                IF u = 1 THEN [following |-> <<2>>, followers |-> <<>>, v |-> 1]
                         ELSE [following |-> <<>>, followers |-> <<1>>, v |-> 1]]
  /\ requests = {[id |-> 1, requester |-> 1, recipient |-> 2,
                  status |-> "accepted"]}
  /\ nextId = 2
  /\ mcs = <<[user1 |-> 1, user2 |-> 2, connectionId |-> CanonicalId(1, 2),
              createdFrom |-> 1, isActive |-> TRUE]>>
  /\ notifs = SetToBag({
       [user |-> 2, fromUser |-> 1, type |-> "follow_request"],
       [user |-> 1, fromUser |-> 2, type |-> "follow_accepted"],
       [user |-> 1, fromUser |-> 2, type |-> "mutual_connection_created"],
       [user |-> 2, fromUser |-> 1, type |-> "mutual_connection_created"]})
  /\ calls = [c \in Calls |->
       IF c = 1
         THEN [Idle EXCEPT
                 !.op = "accept", !.pc = "done", !.userId = 2, !.requestId = 1,
                 !.req = [id |-> 1, requester |-> 1, recipient |-> 2,
                          status |-> "accepted"],
                 !.mc = 1, !.mcWas = "absent",
                 !.sent = {<<1, "follow_accepted">>,
                           <<1, "mutual_connection_created">>,
                           <<2, "mutual_connection_created">>},
                 !.res = [status |-> 200,
                          msg |-> "Follow request accepted successfully"]]
         ELSE Idle]
  /\ ops = 2
  /\ faulty = FALSE
  /\ NoMessaging
  /\ NoSockets

MsgBegin ==
  \/ \E c \in MCalls, u \in Callers, m \in ConnIds, content \in Contents :
       MsgSendBegin(c, u, m, content)
  \/ \E c \in MCalls, u \in Callers, m \in ConnIds, page \in Pages,
        limit \in Limits : MsgHistoryBegin(c, u, m, page, limit)
  \/ \E c \in MCalls, u \in Callers, m \in ConnIds : MsgUnreadBegin(c, u, m)
  \/ \E c \in MCalls, u \in Callers, m \in ConnIds : MsgMarkBegin(c, u, m)

MsgStep ==
  \/ \E c \in MCalls : MsgSendLoad(c)
  \/ \E c \in MCalls : MsgSendCreate(c)
  \/ \E c \in MCalls : MsgSendPopulate(c)
  \/ \E c \in MCalls : MsgHistoryLoad(c)
  \/ \E c \in MCalls : MsgHistoryFind(c)
  \/ \E c \in MCalls : MsgHistoryMark(c)
  \/ \E c \in MCalls : MsgHistoryCount(c)
  \/ \E c \in MCalls : MsgUnreadLoad(c)
  \/ \E c \in MCalls : MsgUnreadCount(c)
  \/ \E c \in MCalls : MsgMarkLoad(c)
  \/ \E c \in MCalls : MsgMarkUpdate(c)

\* Message handlers of concurrent HTTP requests interleave at their awaits.
NextMsg ==
  \/ mops < MaxMsgOps /\ MsgBegin
  \/ MsgStep

SpecMsg == InitMsg /\ [][NextMsg]_vars

\* ------------------------------------- messaging with a second connection
\* The database after a further accept created the MutualConnection of user
\* 2 and the user with id Outsider (who here is a member of connection 2 and
\* of no other) and four messages were sent: two from 1 to 2 and one from 2
\* to 1 on connection 1, one from Outsider to 2 on connection 2.  None was
\* read yet.  The server has just started: no handler runs, nothing was
\* emitted.  The user records of Outsider lie outside the modelled user set.
InitMsg2 ==
  /\ users = [u \in Users |->
                IF u = 1 THEN [following |-> <<2>>, followers |-> <<>>, v |-> 1]
                         ELSE [following |-> <<>>, followers |-> <<1>>, v |-> 1]]
  /\ requests = {[id |-> 1, requester |-> 1, recipient |-> 2,
                  status |-> "accepted"]}
  /\ nextId = 2
  /\ mcs = <<[user1 |-> 1, user2 |-> 2, connectionId |-> CanonicalId(1, 2),
              createdFrom |-> 1, isActive |-> TRUE],
             [user1 |-> 2, user2 |-> Outsider,
              connectionId |-> CanonicalId(2, Outsider),
              createdFrom |-> 2, isActive |-> TRUE]>>
  /\ notifs = EmptyBag
  /\ calls = [c \in Calls |-> Idle]
  /\ ops = 0
  /\ faulty = FALSE
  /\ messages = <<NewMessage(1, 1, 2, "hi"), NewMessage(1, 2, 1, "hi"),
                  NewMessage(2, Outsider, 2, "hi"), NewMessage(1, 1, 2, "hi")>>
  /\ events = {}
  /\ mcalls = [c \in MCalls |-> MIdle]
  /\ mops = 0
  /\ NoSockets

NextMsg2 ==
  \/ mops < MaxMsgOps2 /\ MsgBegin
  \/ MsgStep

SpecMsg2 == InitMsg2 /\ [][NextMsg2]_vars

\* ------------------------------------------------ sessions and sendMessage
\* Socket events of the clients and sendMessage requests interleave.  The
\* database is the one of InitMsg: users 1 and 2 share connection 1.
SockEvents ==
  \/ \E token \in Tokens : SocketConnect(token)
  \/ \E s \in 1..Len(sockets) : SocketDisconnect(s)
  \/ \E s \in 1..Len(sockets), receiverId \in OtherIds,
        type \in {"typing", "stop-typing"} : SocketTyping(s, receiverId, type)
  \/ \E s \in 1..Len(sockets), otherUserId \in OtherIds :
       SocketJoinConversation(s, otherUserId)
  \/ \E s \in 1..Len(sockets), otherUserId \in OtherIds :
       SocketLeaveConversation(s, otherUserId)

NextSock ==
  \/ sops + mops < MaxSockOps /\ SockEvents
  \/ /\ sops + mops < MaxSockOps
     /\ \E c \in MCalls, u \in Callers, m \in ConnIds, content \in Contents :
          MsgSendBegin(c, u, m, content)
  \/ \E c \in MCalls : MsgSendLoad(c)
  \/ \E c \in MCalls : MsgSendCreate(c)
  \/ \E c \in MCalls : MsgSendPopulate(c)

SpecSock == InitMsg /\ [][NextSock]_vars

\* ====================================================================
\* Properties
\* ====================================================================
\* The step in which invocation c acts.
Acts(c) == InFlight(c) /\ calls'[c] # calls[c]

\* The step in which invocation c sends its response.
Completes(c) == InFlight(c) /\ calls'[c].pc = "done"

\* The connections of the unordered pair {a, b} in the collection m.
PairMCs(m, a, b) == {i \in 1..Len(m) : {m[i].user1, m[i].user2} = {a, b}}

\* No id occurs twice in a following or followers array of us.
NoDuplicates(us) ==
  \A u \in Users, x \in Users :
    Count(us[u].following, x) <= 1 /\ Count(us[u].followers, x) <= 1

\* Number of stored notifications of a type.
NotifCount(type) ==
  LET S == {n \in BagToSet(notifs) : n.type = type}
  IN BagCardinality([n \in S |-> notifs[n]])

MCTypes == {"mutual_connection_created", "mutual_connection_reactivated"}

\* The outcome the guards of accept and reject are specified to have for
\* request id and acting user: 404 NotFound, 403 Forbidden, 400 InvalidState,
\* 0 when the call goes on.
ExpectedGuard(id, actor) ==
  IF ~\E r \in requests : r.id = id THEN 404
  ELSE LET r == CHOOSE r \in requests : r.id = id
       IN IF r.recipient # actor THEN 403
          ELSE IF r.status # "pending" THEN 400
          ELSE 0

\* C1: in every reachable state at most one MutualConnection exists for
\* an unordered pair of users, every connection is keyed by the canonicalId
\* of its two members taken in either order, and the connection an accept
\* resolved to is keyed by the canonicalId of its request's two parties.
C1_CanonicalUniqueness ==
  /\ \A i, j \in 1..Len(mcs) :
       {mcs[i].user1, mcs[i].user2} = {mcs[j].user1, mcs[j].user2} => i = j
  /\ \A i \in 1..Len(mcs) :
       /\ mcs[i].connectionId = CanonicalId(mcs[i].user1, mcs[i].user2)
       /\ mcs[i].connectionId = CanonicalId(mcs[i].user2, mcs[i].user1)
  /\ \A c \in Calls :
       calls[c].op = "accept" /\ calls[c].mc # 0
         => mcs[calls[c].mc].connectionId =
              CanonicalId(calls[c].req.recipient, calls[c].req.requester)

\* C1 witness: the accepts of A->B and of B->A ran concurrently, both found
\* no connection, one created it and the other failed on the unique index.
C1_Witness ==
  \E c, d \in Calls :
    /\ c # d
    /\ calls[c].op = "accept" /\ calls[d].op = "accept"
    /\ calls[c].req.requester = calls[d].req.recipient
    /\ calls[c].req.recipient = calls[d].req.requester
    /\ calls[c].mcWas = "absent" /\ calls[d].mcWas = "absent"
    /\ calls[c].res.status = 200
    /\ calls[d].res.status = 500
    /\ Len(mcs) = 1

\* An accept or reject invocation that has passed the status == pending
\* check holds the request it loaded.
PassedGuard(c) == calls[c].op \in {"accept", "reject"} /\ calls[c].req # NoReq

\* C2 (as claimed): for one request at most one accept/reject invocation
\* passes the pending check, and the follow_accepted notification is
\* persisted at most once per request ever created.
C2_AtMostOnePasses ==
  /\ \A c, d \in Calls :
       c # d /\ PassedGuard(c) /\ PassedGuard(d)
         => calls[c].req.id # calls[d].req.id
  /\ NotifCount("follow_accepted") <= nextId - 1

\* C3 (as claimed): a request whose stored status is accepted or rejected
\* never has its status written again; it can only be deleted.
C3_StatusImmutable ==
  [][\A r \in requests :
       r.status # "pending"
         => \A q \in requests' : q.id = r.id => q.status = r.status]_vars

\* At most one request per ordered pair (requester, recipient).
RequestUnique ==
  \A r, q \in requests :
    r.requester = q.requester /\ r.recipient = q.recipient => r = q

\* C4: at most one ConnectionRequest per ordered pair exists in every
\* state, and the create of toggle either finds the pair present, fails with
\* 409 and adds no row, or adds exactly one pending row for the pair.
C4_UniqueRequest ==
  [][/\ RequestUnique'
     /\ \A c \in Calls :
          calls[c].pc = "t_create" /\ Acts(c) =>
            LET u == calls[c].userId
                t == calls[c].target
            IN IF \E r \in requests : r.requester = u /\ r.recipient = t
                 THEN requests' = requests /\ calls'[c].res.status = 409
                 ELSE /\ calls'[c].res.status = 0
                      /\ \E r \in requests' \ requests :
                           /\ r.requester = u /\ r.recipient = t
                           /\ r.status = "pending"
                           /\ requests' = requests \cup {r}]_vars

\* C4 witness: two toggle(A,B) raced; one created the request, the other
\* got 409 from the unique index.
C4_Witness ==
  \E c, d \in Calls :
    /\ c # d
    /\ calls[c].op = "toggle" /\ calls[d].op = "toggle"
    /\ calls[c].userId = calls[d].userId /\ calls[c].target = calls[d].target
    /\ calls[c].res.status = 201
    /\ calls[d].res = [status |-> 409, msg |-> "Follow request already exists"]
    /\ Cardinality(requests) = 1

\* C5: accept answers 404 when the request does not exist, 403 when the
\* acting user is not its recipient, 400 when it is not pending; such an
\* answer is given by the first step of the invocation, which changes no
\* request, follow set, MutualConnection or Notification.
C5_AcceptGuards ==
  [][\A c \in Calls :
       calls[c].op = "accept" /\ Acts(c) =>
         /\ calls[c].pc = "a_find" =>
              calls'[c].res.status =
                ExpectedGuard(calls[c].requestId, calls[c].userId)
         /\ calls'[c].res.status \in {400, 403, 404} =>
              calls[c].pc = "a_find" /\ db' = db]_vars

\* C5 witness: one accept was refused with 400 (request already accepted)
\* and another with 403 (caller is not the recipient).
C5_Witness ==
  \E c, d \in Calls :
    /\ calls[c].op = "accept" /\ calls[c].res.status = 400
    /\ calls[d].op = "accept" /\ calls[d].res.status = 403
    /\ \E r \in requests : r.id = calls[c].requestId /\ r.status = "accepted"

C8_NotifiesBothAlways ==
  [][\A c \in Calls :
       calls[c].op = "accept" /\ Completes(c) /\ calls'[c].res.status = 200
         => \A p \in {calls'[c].req.requester, calls'[c].req.recipient} :
              Cardinality({t \in MCTypes : <<p, t>> \in calls'[c].sent}) = 1]_vars

\* C8 (amended): with one invocation at a time, an accept that answers 200
\* has emitted exactly one notification to each party, of type created when
\* it found no connection of the pair and of type reactivated when it found
\* an inactive one, both persisted by its last step; when it found the
\* connection already active it has emitted none and its last step persists
\* nothing.
C8_NotifiesOnCreateOrReactivate ==
  [][\A c \in Calls :
       calls[c].op = "accept" /\ Completes(c) /\ calls'[c].res.status = 200
         => LET a == calls'[c].req.requester
                b == calls'[c].req.recipient
                was == calls'[c].mcWas
                type == IF was = "absent" THEN "mutual_connection_created"
                        ELSE "mutual_connection_reactivated"
                toA == [user |-> a, fromUser |-> b, type |-> type]
                toB == [user |-> b, fromUser |-> a, type |-> type]
                emitted == {e \in calls'[c].sent : e[2] \in MCTypes}
            IN IF was = "active"
                 THEN emitted = {} /\ notifs' = notifs
                 ELSE /\ was \in {"absent", "inactive"}
                      /\ emitted = {<<a, type>>, <<b, type>>}
                      /\ notifs' = (notifs (+) SetToBag({toA}))
                                     (+) SetToBag({toB})]_vars

\* C8 witness: an accept that found the pair's connection already active
\* (created by the accept of the opposite request) answered 200.
C8_Witness ==
  \E c \in Calls :
    /\ calls[c].op = "accept" /\ calls[c].res.status = 200
    /\ calls[c].mcWas = "active"
    /\ NotifCount("mutual_connection_created") = 2
    /\ NotifCount("follow_accepted") = 2

\* C9: reject applies the guards of accept (404, 403, 400) in its first
\* step; no step of a reject changes a follow set, a MutualConnection or a
\* Notification; its save, when it answers 200, changes nothing but the
\* status of that one request, to rejected.
C9_RejectFrame ==
  [][\A c \in Calls :
       calls[c].op = "reject" /\ Acts(c) =>
         /\ users' = users /\ mcs' = mcs /\ notifs' = notifs
         /\ calls[c].pc = "r_find" =>
              /\ calls'[c].res.status =
                   ExpectedGuard(calls[c].requestId, calls[c].userId)
              /\ requests' = requests
         /\ calls'[c].res.status \in {400, 403, 404} => calls[c].pc = "r_find"
         /\ calls'[c].res.status = 200 =>
              \E r \in requests :
                /\ r.id = calls[c].requestId
                /\ requests' = (requests \ {r})
                                 \cup {[r EXCEPT !.status = "rejected"]}]_vars

\* C9 witness: a reject answered 200 in a state with a stored rejected
\* request, a follow edge, a MutualConnection and notifications.
C9_Witness ==
  \E c \in Calls :
    /\ calls[c].op = "reject" /\ calls[c].res.status = 200
    /\ \E r \in requests : r.id = calls[c].requestId /\ r.status = "rejected"
    /\ Len(mcs) = 1
    /\ \E u \in Users : users[u].following # <<>>
    /\ notifs # EmptyBag

\* C10 (as claimed): a toggle that unfollows answers 200 and leaves B out
\* of A's following set, A out of B's followers set and no request between
\* A and B in either direction.
C10_UnfollowDeletesBoth ==
  [][\A c \in Calls :
       calls[c].op = "toggle" /\ Completes(c)
       /\ calls'[c].res.msg = "unfollowed"
         => LET u == calls[c].userId
                t == calls[c].target
            IN /\ calls'[c].res.status = 200
               /\ ~Contains(users'[u].following, t)
               /\ ~Contains(users'[t].followers, u)
               /\ ~\E r \in requests' :
                     {r.requester, r.recipient} = {u, t}]_vars

\* C10 (amended): with one invocation at a time, toggle(A,B) while A
\* follows B unfollows: it answers 200 'unfollowed' and leaves B out of A's
\* following set, A out of B's followers set and no request A->B; a request
\* B->A is not touched by any of its steps.
C10_Unfollow ==
  [][\A c \in Calls :
       calls[c].op = "toggle" /\ Acts(c) =>
         LET u == calls[c].userId
             t == calls[c].target
         IN /\ {r \in requests' : r.requester = t /\ r.recipient = u}
                 = {r \in requests : r.requester = t /\ r.recipient = u}
            /\ (calls[c].pc = "t_users" /\ calls'[c].pc # "t_users"
                /\ Contains(users[u].following, t))
                 => calls'[c].pc = "t_save"
            /\ (calls[c].pc \in {"t_save", "t_cleanup"} /\ Completes(c))
                 => calls'[c].res = [status |-> 200, msg |-> "unfollowed"]
            /\ calls'[c].res.msg = "unfollowed" =>
                 /\ calls'[c].res.status = 200
                 /\ ~Contains(users'[u].following, t)
                 /\ ~Contains(users'[t].followers, u)
                 /\ ~\E r \in requests' :
                       r.requester = u /\ r.recipient = t]_vars

\* C10 witness: a toggle(A,B) unfollowed while a request B->A is stored.
C10_Witness ==
  \E c \in Calls :
    /\ calls[c].op = "toggle"
    /\ calls[c].res = [status |-> 200, msg |-> "unfollowed"]
    /\ \E r \in requests :
         r.requester = calls[c].target /\ r.recipient = calls[c].userId

\* User a does not follow b and no request a -> b is stored.
NotFollowing(us, rq, a, b) ==
  /\ ~Contains(us[a].following, b)
  /\ ~Contains(us[b].followers, a)
  /\ ~\E r \in rq : r.requester = a /\ r.recipient = b

\* C11: round trip with one invocation at a time.  From a state where A
\* does not follow B and no request A->B exists, toggle(A,B) creates a
\* pending request and answers 201; an accept that answers 200 leaves A
\* following B with the request accepted; toggle(A,B) while A follows B
\* takes the unfollow path and answers 200 'unfollowed' in a state where A
\* does not follow B and no request A->B exists, which is again the state
\* from which toggle(A,B) creates a fresh pending request.
C11_RoundTrip ==
  [][\A c \in Calls :
       /\ (calls[c].op = "toggle" /\ Acts(c) /\ calls[c].target \in Users) =>
            LET a == calls[c].userId
                b == calls[c].target
                leaves == calls[c].pc = "t_users" /\ calls'[c].pc # "t_users"
            IN /\ (leaves /\ NotFollowing(users, requests, a, b))
                    => calls'[c].pc = "t_find"
               /\ (calls[c].pc = "t_find" /\ NotFollowing(users, requests, a, b))
                    => calls'[c].pc = "t_create"
               /\ (calls[c].pc = "t_create"
                   /\ NotFollowing(users, requests, a, b))
                    => /\ calls'[c].pc = "t_notify"
                       /\ requests' = requests \cup
                            {[id |-> nextId, requester |-> a, recipient |-> b,
                              status |-> "pending"]}
               /\ calls[c].pc = "t_notify"
                    => /\ calls'[c].res.status = 201
                       /\ \E r \in requests' :
                            /\ r.requester = a /\ r.recipient = b
                            /\ r.status = "pending"
               /\ (leaves /\ Contains(users[a].following, b))
                    => calls'[c].pc = "t_save"
               /\ (calls[c].pc \in {"t_save", "t_cleanup"} /\ Completes(c))
                    => /\ calls'[c].res = [status |-> 200, msg |-> "unfollowed"]
                       /\ NotFollowing(users', requests', a, b)
       /\ (calls[c].op = "accept" /\ Completes(c)
           /\ calls'[c].res.status = 200) =>
            LET a == calls'[c].req.requester
                b == calls'[c].req.recipient
            IN /\ Contains(users'[a].following, b)
               /\ Contains(users'[b].followers, a)
               /\ \E r \in requests' :
                    /\ r.requester = a /\ r.recipient = b
                    /\ r.status = "accepted"]_vars

\* C11 witness: toggle(A,B), accept by B, toggle(A,B), toggle(A,B) ran: the
\* second request A->B is pending, the first is gone, the connection made
\* from the first exists and A does not follow B.
C11_Witness ==
  \E c \in Calls :
    /\ calls[c].op = "toggle" /\ calls[c].res.status = 201
    /\ calls[c].req.id = 2
    /\ requests = {calls[c].req}
    /\ calls[c].req.status = "pending"
    /\ Len(mcs) = 1 /\ mcs[1].createdFrom = 1
    /\ ~Contains(users[calls[c].userId].following, calls[c].target)
    /\ ~Contains(users[calls[c].target].followers, calls[c].userId)
    /\ CopiesIn([user |-> calls[c].target, fromUser |-> calls[c].userId,
                 type |-> "follow_request"], notifs) = 2

\* C12: a toggle whose lookup finds a pending request A->B (A not following
\* B) answers 409 'Follow request already sent'; up to and including that
\* answer the invocation has only read, so no request, follow set,
\* MutualConnection or Notification changes; every 409 of toggle is given
\* by a step that changes nothing and leaves exactly one request A->B.
C12_DuplicateConflict ==
  [][\A c \in Calls :
       calls[c].op = "toggle" /\ Acts(c) =>
         LET a == calls[c].userId
             b == calls[c].target
             pend == {r \in requests : /\ r.requester = a /\ r.recipient = b
                                       /\ r.status = "pending"}
         IN /\ calls[c].pc \in {"t_users", "t_find"} => db' = db
            /\ (calls[c].pc = "t_find" /\ pend # {})
                 => /\ calls'[c].res =
                         [status |-> 409, msg |-> "Follow request already sent"]
                    /\ pend \subseteq requests'
            /\ calls'[c].res.status = 409
                 => /\ db' = db
                    /\ Cardinality({r \in requests' :
                         r.requester = a /\ r.recipient = b}) = 1]_vars

\* C12 witness: the second of two consecutive toggle(A,B) answered 409 and
\* the one pending request and its one notification are all there is.
C12_Witness ==
  \E c \in Calls :
    /\ calls[c].op = "toggle"
    /\ calls[c].res = [status |-> 409, msg |-> "Follow request already sent"]
    /\ requests = {[id |-> 1, requester |-> calls[c].userId,
                    recipient |-> calls[c].target, status |-> "pending"]}
    /\ nextId = 2
    /\ BagCardinality(notifs) = 1
    /\ \A u \in Users : users[u].following = <<>> /\ users[u].followers = <<>>

\* C13: with one invocation at a time, a toggle whose lookup finds a request
\* A->B that is accepted or rejected (A not following B) deletes exactly
\* that request, then creates one fresh pending request A->B under a new id
\* and answers 201 with it stored; and an accept by the recipient of a
\* pending request passes the guards.
C13_ReRequest ==
  [][\A c \in Calls :
       /\ (calls[c].op = "toggle" /\ Acts(c)) =>
            LET a == calls[c].userId
                b == calls[c].target
                old == FindRequest(a, b)
            IN /\ (calls[c].pc = "t_find" /\ old # NoReq
                   /\ old.status \in {"accepted", "rejected"})
                    => calls'[c].pc = "t_delete" /\ calls'[c].req = old
               /\ calls[c].pc = "t_delete"
                    => /\ calls[c].req \in requests
                       /\ requests' = requests \ {calls[c].req}
                       /\ calls'[c].pc = "t_create"
               /\ calls[c].pc = "t_create"
                    => /\ calls'[c].pc = "t_notify"
                       /\ calls'[c].req = [id |-> nextId, requester |-> a,
                                           recipient |-> b, status |-> "pending"]
                       /\ \A r \in requests : r.id # nextId
                       /\ requests' = requests \cup {calls'[c].req}
               /\ calls[c].pc = "t_notify"
                    => /\ calls'[c].res.status = 201
                       /\ calls'[c].req \in requests'
       /\ (/\ calls[c].op = "accept" /\ Acts(c) /\ calls[c].pc = "a_find"
           /\ \E r \in requests : /\ r.id = calls[c].requestId
                                   /\ r.recipient = calls[c].userId
                                   /\ r.status = "pending")
            => calls'[c].pc = "a_users"]_vars

\* C13 witness: A's first request was rejected, A requested again and B
\* accepted the second request: two follow_request notifications from A to
\* B, one follow_accepted, the connection made from request 2.
C13_Witness ==
  \E c \in Calls :
    /\ calls[c].op = "accept" /\ calls[c].res.status = 200
    /\ calls[c].req.id = 2
    /\ requests = {calls[c].req}
    /\ CopiesIn([user |-> calls[c].req.recipient,
                 fromUser |-> calls[c].req.requester,
                 type |-> "follow_request"], notifs) = 2
    /\ NotifCount("follow_accepted") = 1
    /\ Len(mcs) = 1 /\ mcs[1].createdFrom = 2

\* C14: while Notification.create may fail, the step that emits a
\* notification changes no follow set, request or MutualConnection and
\* continues the handler the same way whether the Notification was stored
\* or not: toggle answers 201, accept goes on to the connection lookup and
\* then answers 200; no other step changes the Notification collection; and
\* an accept that answers 200 has left the request accepted, the follow
\* edge in place and the pair's MutualConnection active.
C14_EmitNeverAffects ==
  [][\A c \in Calls :
       Acts(c) =>
         LET rec == calls[c]
             emits == rec.pc \in {"t_notify", "a_notify", "a_notifymc"}
         IN /\ emits => /\ users' = users /\ requests' = requests
                        /\ mcs' = mcs /\ nextId' = nextId
                        /\ calls'[c].failed = rec.failed
                        /\ calls'[c].req = rec.req /\ calls'[c].mc = rec.mc
            /\ ~emits => notifs' = notifs
            /\ rec.pc = "t_notify" =>
                 calls'[c].res = [status |-> 201,
                                  msg |-> "Follow request sent successfully"]
            /\ rec.pc = "a_notify" =>
                 calls'[c].pc = "a_findmc" /\ calls'[c].res = NoRes
            /\ rec.pc = "a_notifymc" =>
                 calls'[c].res = [status |-> 200,
                                  msg |-> "Follow request accepted successfully"]
            /\ (rec.op = "accept" /\ calls'[c].res.status = 200) =>
                 LET a == calls'[c].req.requester
                     b == calls'[c].req.recipient
                 IN /\ \E r \in requests' :
                         r.id = rec.requestId /\ r.status = "accepted"
                    /\ Contains(users'[a].following, b)
                    /\ Contains(users'[b].followers, a)
                    /\ \E i \in PairMCs(mcs', a, b) : mcs'[i].isActive]_vars

\* C14 witness: a toggle answered 201 and the accept of its request answered
\* 200 having created the connection, while none of the four notifications
\* was stored.
C14_Witness ==
  \E c \in Calls :
    /\ faulty
    /\ calls[c].op = "accept" /\ calls[c].res.status = 200
    /\ calls[c].mcWas = "absent"
    /\ Cardinality(calls[c].sent) = 3
    /\ notifs = EmptyBag
    /\ Len(mcs) = 1 /\ mcs[1].isActive
    /\ \E r \in requests : r.status = "accepted"

\* C15: every stored Notification has a target user different from its
\* from user, and createNotification called with target = from stores
\* nothing and returns null.
C15_NoSelfNotification ==
  /\ [](\A n \in BagToSet(notifs) : n.user # n.fromUser)
  /\ [][\A c \in Calls :
          (/\ calls'[c] # calls[c] /\ calls'[c].op = "emit"
           /\ calls'[c].userId = calls'[c].target)
            => notifs' = notifs /\ calls'[c].res.msg = "null"]_vars

\* C15 witness: createNotification was called with target = from on a
\* storage that accepts inserts, returned null, and the collection holds
\* the notifications of the earlier calls only.
C15_Witness ==
  \E c \in Calls :
    /\ ~faulty
    /\ calls[c].op = "emit" /\ calls[c].userId = calls[c].target
    /\ calls[c].res.msg = "null"
    /\ BagCardinality(notifs) = 2

\* The step in which message handler invocation c acts.
MActs(c) == MInFlight(c) /\ mcalls'[c] # mcalls[c]

\* Caller of invocation c named an existing connection without being one of
\* its two members.
NonMember(rec) ==
  /\ rec.mcId \in 1..Len(mcs)
  /\ rec.userId \notin {mcs[rec.mcId].user1, mcs[rec.mcId].user2}

\* C16 (as claimed): a send or history on an existing connection by a
\* caller who is not one of its members is always answered 403, whatever
\* the content, and no step of it stores a message, emits an event or marks
\* a message as read.
C16_NonMemberForbidden ==
  /\ [](\A c \in MCalls :
          (/\ mcalls[c].op \in {"send", "history"} /\ mcalls[c].pc = "done"
           /\ NonMember(mcalls[c]))
            => mcalls[c].res.status = 403)
  /\ [][\A c \in MCalls :
          (/\ mcalls'[c].op \in {"send", "history"} /\ mcalls'[c] # mcalls[c]
           /\ NonMember(mcalls'[c]))
            => messages' = messages /\ events' = events]_vars

\* C17: every stored Message refers to an existing MutualConnection, its
\* sender and receiver are the two members of that connection, and they
\* differ.
C17_MessageMembers ==
  \A i \in 1..Len(messages) :
    /\ messages[i].mc \in 1..Len(mcs)
    /\ {messages[i].sender, messages[i].receiver}
         = {mcs[messages[i].mc].user1, mcs[messages[i].mc].user2}
    /\ messages[i].sender # messages[i].receiver

\* C17 witness: each member has sent a message on the connection and a send
\* by a non-member was refused.
C17_Witness ==
  /\ \E i, j \in 1..Len(messages) :
       /\ messages[i].sender = 1 /\ messages[i].receiver = 2
       /\ messages[j].sender = 2 /\ messages[j].receiver = 1
  /\ \E c \in MCalls :
       /\ mcalls[c].op = "send" /\ mcalls[c].userId = Outsider
       /\ mcalls[c].res.status = 403

\* The elements of a sequence.
Range(seq) == {seq[i] : i \in 1..Len(seq)}

\* Message id is on page `page` of size `limit` of connection m's history:
\* the number of messages of m at least as new as id lies in the page.
InWindow(id, m, page, limit) ==
  LET rank == Cardinality({j \in 1..Len(messages) :
                             messages[j].mc = m /\ j >= id})
  IN (page - 1) * limit < rank /\ rank <= page * limit

\* C18: every emitted new-message event is of a stored message (of that
\* connection, addressed to the user whose channel it was emitted to), and
\* the find of a history fetch returns every message of the connection for
\* which an event has been emitted and which lies on the fetched page.
C18_PersistBeforePush ==
  /\ [](\A e \in events :
          /\ e.msg \in 1..Len(messages)
          /\ messages[e.msg].mc = e.mc
          /\ messages[e.msg].receiver = e.room[2])
  /\ [][\A c \in MCalls :
          (MActs(c) /\ mcalls[c].pc = "h_find") =>
            \A e \in events :
              (/\ e.mc = mcalls[c].mcId
               /\ InWindow(e.msg, e.mc, mcalls[c].page, mcalls[c].limit))
                => e.msg \in Range(mcalls'[c].result)]_vars

\* C18 witness: a member's history fetch answered 200 with a message whose
\* event had been emitted, while a later message of the connection was
\* stored but its event not yet emitted.
C18_Witness ==
  \E c \in MCalls :
    /\ mcalls[c].op = "history" /\ mcalls[c].res.status = 200
    /\ \E e \in events : e.msg \in Range(mcalls[c].result)
    /\ \E i \in 1..Len(messages) : \A e \in events : e.msg # i

\* C19 (as claimed): a send that answered 201 has emitted the new-message
\* event of its message to the receiver's personal channel and to the
\* conversation room of the pair.
C19_DualChannel ==
  \A c \in MCalls :
    (mcalls[c].op = "send" /\ mcalls[c].res.status = 201) =>
      /\ \E e \in events :
           /\ e.msg = mcalls[c].msg
           /\ e.room = <<"user", mcalls[c].receiver>>
      /\ \E e \in events :
           /\ e.msg = mcalls[c].msg
           /\ e.room = <<"conversation",
                         CanonicalId(mcalls[c].userId, mcalls[c].receiver)>>

HoldsLiveSession(u) ==
  \E s \in 1..Len(sockets) : sockets[s].live /\ sockets[s].userId = u

\* C23: in every reachable state isUserOnline(u) is true exactly when u
\* holds a live session, also when u opened a second session before the
\* first one disconnected.
C23_PresenceReflectsSessions ==
  \A u \in Users \cup {Outsider} :
    isUserOnline(activeUsers, u) <=> HoldsLiveSession(u)

\* C24: activeUsers maps a user to one socket id; after a connect of u on
\* socket s the entry of u is s; a disconnect of socket s removes the entry
\* of the user of s and no entry that holds the id of another socket.
C24_RegistryMapping ==
  [][/\ \A token \in Users \cup {Outsider} :
          SocketConnect(token) => activeUsers'[token] = Len(sockets')
     /\ \A s \in 1..Len(sockets) :
          SocketDisconnect(s) =>
            /\ \A u \in DOMAIN activeUsers :
                 activeUsers[u] = s => u \notin DOMAIN activeUsers'
            /\ \A u \in DOMAIN activeUsers :
                 activeUsers[u] # s =>
                   /\ u \in DOMAIN activeUsers'
                   /\ activeUsers'[u] = activeUsers[u]]_vars

RoomKeysCanonical ==
  /\ [](\A u, v \in Users \cup {Outsider} :
          ConversationRoom(u, v) = ConversationRoom(v, u))
  /\ [][\A s \in 1..Len(sockets), v \in Users \cup {Outsider} :
          LET u == sockets[s].userId
              room == <<"conversation", CanonicalId(u, v)>>
          IN /\ SocketJoinConversation(s, v) =>
                  /\ sockets'[s].rooms = sockets[s].rooms \cup {room}
                  /\ \A m \in 1..Len(mcs) :
                       {mcs[m].user1, mcs[m].user2} = {u, v} =>
                         room = <<"conversation", mcs[m].connectionId>>
                  /\ \A t \in 1..Len(sockets) :
                       t # s => sockets'[t] = sockets[t]
             /\ SocketLeaveConversation(s, v) =>
                  /\ sockets'[s].rooms = sockets[s].rooms \ {room}
                  /\ \A t \in 1..Len(sockets) :
                       t # s => sockets'[t] = sockets[t]]_vars

\* C26 as stated: room keys are canonical, and for every connected socket
\* and every otherUserId a join followed by a leave gives back the rooms
\* the socket was in before the join.
C26_JoinLeaveRestores ==
  /\ RoomKeysCanonical
  /\ [](\A s \in 1..Len(sockets), v \in Users \cup {Outsider} :
          sockets[s].live =>
            LET room == ConversationRoom(sockets[s].userId, v)
            IN Leave(Join(sockets[s].rooms, room), room) = sockets[s].rooms)

\* C26 amended: room keys are canonical, and a join followed by a leave gives
\* back the rooms the socket was in before the join when the socket was not
\* in that room before the join; when it was, the leave takes it out of the
\* room.
C26_JoinLeaveRestoresFresh ==
  /\ RoomKeysCanonical
  /\ [](\A s \in 1..Len(sockets), v \in Users \cup {Outsider} :
          sockets[s].live =>
            LET room == ConversationRoom(sockets[s].userId, v)
                after == Leave(Join(sockets[s].rooms, room), room)
            IN /\ room \notin sockets[s].rooms => after = sockets[s].rooms
               /\ room \in sockets[s].rooms =>
                    after = sockets[s].rooms \ {room})

\* C26 witness: a socket of user 1 joined with otherUserId 2 and a socket of
\* user 2 joined with otherUserId 1; both are in the room whose key is the
\* connectionId of the MutualConnection of users 1 and 2.
C26_Witness ==
  \E s, t \in 1..Len(sockets) :
    /\ sockets[s].live /\ sockets[s].userId = 1
    /\ sockets[t].live /\ sockets[t].userId = 2
    /\ <<"conversation", mcs[1].connectionId>> \in sockets[s].rooms
    /\ <<"conversation", mcs[1].connectionId>> \in sockets[t].rooms
    /\ Cardinality(sockets[s].rooms) = 2
    /\ Cardinality(sockets[t].rooms) = 2

\* C27: in every reachable state in which no handler invocation is in
\* flight, b is in the following array of a exactly when a is in the
\* followers array of b, for all users a and b, also after toggleFollow and
\* acceptFollowRequest invocations of different users have interleaved.
C27_FollowSymmetry ==
  Quiet =>
    \A a, b \in Users :
      Contains(users[a].following, b) <=> Contains(users[b].followers, a)

\* An acceptFollowRequest invocation is running.
AcceptInFlight == \E c \in Calls : InFlight(c) /\ calls[c].op = "accept"

\* Request r is accepted and the follow it stands for is in both arrays.
AcceptedAndFollowing(r) ==
  /\ r.status = "accepted"
  /\ Contains(users[r.requester].following, r.recipient)
  /\ Contains(users[r.recipient].followers, r.requester)

\* C28: in every reachable state in which no acceptFollowRequest is in
\* flight, every accepted FollowRequest has a MutualConnection of its pair,
\* and no acceptFollowRequest that answered 500 has left its request
\* accepted with the follow of the pair applied.
C28_AcceptAllOrNothing ==
  ~AcceptInFlight =>
    /\ \A r \in requests :
         r.status = "accepted" =>
           \E m \in 1..Len(mcs) :
             {mcs[m].user1, mcs[m].user2} = {r.requester, r.recipient}
    /\ \A c \in Calls :
         (calls[c].op = "accept" /\ calls[c].res.status = 500) =>
           \A r \in requests :
             r.id = calls[c].requestId => ~AcceptedAndFollowing(r)

\* C29: in every reachable state in which no toggleFollow, acceptFollowRequest
\* or rejectFollowRequest is in flight, whenever b is in the following array
\* of a there is a FollowRequest with requester a and recipient b whose
\* status is accepted.
C29_FollowImpliesAccepted ==
  Quiet =>
    \A a, b \in Users :
      Contains(users[a].following, b) =>
        \E r \in requests :
          r.requester = a /\ r.recipient = b /\ r.status = "accepted"

\* C30: every new-message event a socket has received is for a stored
\* message of a connection of which the socket's user is a member, the user
\* being the sender or the receiver of the message; a socket is in no room
\* but the user room of its own user and conversation rooms whose key holds
\* its own user id, so the socket of a user outside a connection is in
\* neither member's user room nor in the conversation room of the pair.
C30_Confidentiality ==
  \A s \in 1..Len(sockets) :
    LET own == sockets[s].userId IN
    /\ \A k \in 1..Len(sockets[s].inbox) :
         LET ev == sockets[s].inbox[k] IN
         ev.type = "new-message" =>
           /\ ev.mc \in 1..Len(mcs)
           /\ IsMember(ev.mc, own)
           /\ ev.msg \in 1..Len(messages)
           /\ messages[ev.msg].mc = ev.mc
           /\ own \in {messages[ev.msg].sender, messages[ev.msg].receiver}
    /\ \A room \in sockets[s].rooms :
         \/ room = UserRoom(own)
         \/ \E o \in OtherIds : room = ConversationRoom(own, o)
    /\ \A m \in 1..Len(mcs) :
         ~IsMember(m, own) =>
           /\ UserRoom(mcs[m].user1) \notin sockets[s].rooms
           /\ UserRoom(mcs[m].user2) \notin sockets[s].rooms
           /\ <<"conversation", mcs[m].connectionId>> \notin sockets[s].rooms

\* C30 witness: user 1 sent a message on connection 1 while a socket of user
\* 2 and a socket of the outsider were connected, the latter having joined a
\* conversation with otherUserId 1: the socket of user 2 received the
\* new-message event, the outsider's socket did not.
C30_Witness ==
  \E s, t \in 1..Len(sockets) :
    /\ sockets[s].userId = 2 /\ sockets[s].live
    /\ sockets[t].userId = Outsider /\ sockets[t].live
    /\ ConversationRoom(Outsider, 1) \in sockets[t].rooms
    /\ Len(messages) = 1 /\ messages[1].sender = 1
    /\ \E k \in 1..Len(sockets[s].inbox) :
         sockets[s].inbox[k] = SockEvent("new-message", 1, 1, 1)
    /\ \A k \in 1..Len(sockets[t].inbox) :
         sockets[t].inbox[k].type # "new-message"
====
